---- MODULE Spec2Model ----
(***************************************************************************)
(* Model of bson/struct_codec.go: the struct descriptor builder with its   *)
(* per-codec cache (describeStruct / describeStructSlow / dominantField),  *)
(* the encode traversal (EncodeValue, isEmpty) and the decode traversal    *)
(* (DecodeValue, newDecodeError, getInlineField).                          *)
(*                                                                         *)
(* Every goroutine is a stack of frames.  A frame is one activation of     *)
(* describeStruct, EncodeValue or DecodeValue.  The only shared object is  *)
(* structCodec.cache (a sync.Map): an action is one cache access followed  *)
(* by the goroutine's local computation up to its next cache access.       *)
(***************************************************************************)
EXTENDS Integers, Sequences, FiniteSets, TLC

VARIABLES codec, cache, heap, procs, nextAddr

vars == <<codec, cache, heap, procs, nextAddr>>

(* ---------------------------------------------------------------- bounds *)
NumProcs == 2
MaxCalls == 3
MaxFields == 3
MaxEncFields == 2
MaxDoc == 2

Procs == 1..NumProcs

(* ------------------------------------------------------ generic helpers *)
Min(S) == CHOOSE x \in S : \A y \in S : x <= y

Remove(s, i) == [k \in 1..(Len(s) - 1) |-> IF k < i THEN s[k] ELSE s[k + 1]]

Last(s) == s[Len(s)]

Front(s) == SubSeq(s, 1, Len(s) - 1)

(* sort.Slice / sort.Sort compare strings; the order of the names used.    *)
NameRank(n) ==
    CASE n = "A" -> 1 [] n = "B" -> 2 [] n = "Z" -> 3
      [] n = "a" -> 4 [] n = "b" -> 5 [] n = "c" -> 6 [] n = "z" -> 7
      [] OTHER -> 8

(* strings.ToLower on the names used *)
ToLower(n) ==
    CASE n = "A" -> "a" [] n = "B" -> "b" [] n = "Z" -> "z" [] OTHER -> n

(* ------------------------------------------------------------ errors *)
NoErr == [e |-> "nil", info |-> "", keys |-> <<>>, wrapped |-> <<>>]

Err(e, info) == [e |-> e, info |-> info, keys |-> <<>>, wrapped |-> <<>>]

(* ------------------------------------------------- reflect.Type, tags *)
Ty(kind, name, fields, elem, n) ==
    [kind |-> kind, name |-> name, fields |-> fields, elem |-> elem, n |-> n]

TInt == Ty("int", "int", <<>>, <<>>, 0)
TString == Ty("string", "string", <<>>, <<>>, 0)
TChan == Ty("chan", "chan", <<>>, <<>>, 0)
TIface == Ty("iface", "iface", <<>>, <<>>, 0)
TSlice == Ty("slice", "[]int", <<>>, <<TInt>>, 0)
TArray(n) == Ty("array", "[n]int", <<>>, <<TInt>>, n)
TMap(keyIsString, elem) ==
    Ty("map", "map", <<>>, <<elem>>, IF keyIsString THEN 1 ELSE 0)
TPtr(t) == Ty("ptr", "ptr", <<>>, <<t>>, 0)
TStruct(name, fields) == Ty("struct", name, fields, <<>>, 0)

Elem(t) == t.elem[1]

NumField(t) == Len(t.fields)

(* structTags, as the tag parsers return it *)
Tag(name, omitEmpty, inline, skip) ==
    [Name |-> name, OmitEmpty |-> omitEmpty, MinSize |-> FALSE,
     Truncate |-> FALSE, Inline |-> inline, Skip |-> skip]

(* reflect.StructField with its two annotations already split *)
SField(name, exported, anonymous, typ, bson, json) ==
    [Name |-> name, Exported |-> exported, Anonymous |-> anonymous,
     Type |-> typ, bson |-> bson, json |-> json]

(* time.Time: a struct whose fields are unexported *)
TTime ==
    Ty("struct", "time.Time",
       <<SField("wall", FALSE, FALSE, TInt, Tag("", FALSE, FALSE, FALSE),
                Tag("", FALSE, FALSE, FALSE))>>, <<>>, 0)

parseStructTags(sf) == sf.bson

parseJSONStructTags(sf) == sf.json

(* Registry.LookupEncoder / LookupDecoder: "nil" when the lookup fails *)
LookupEncoder(t) == IF t.kind \in {"chan", "iface"} THEN "nil" ELSE "enc"

LookupDecoder(t) == IF t.kind \in {"chan"} THEN "nil" ELSE "dec"

(* ------------------------------------- structDescription, fieldDescription *)
NoSd == [fm |-> <<>>, fl |-> <<>>, inlineMap |-> -1, inline |-> FALSE, addr |-> 0]

(* byIndex.Less *)
byIndexLess(x, y) ==
    LET iIdx == IF Len(x.inline) > 0 THEN x.inline[1] ELSE x.idx
        jIdx == IF Len(y.inline) > 0 THEN y.inline[1] ELSE y.idx
        diff == {k \in 1..Len(x.inline) :
                    k > Len(y.inline) \/ x.inline[k] # y.inline[k]}
    IN  IF iIdx # jIdx THEN iIdx < jIdx
        ELSE IF diff # {}
             THEN IF Min(diff) > Len(y.inline) THEN FALSE
                  ELSE x.inline[Min(diff)] < y.inline[Min(diff)]
             ELSE Len(x.inline) < Len(y.inline)

(* the comparison handed to sort.Slice in describeStructSlow *)
fieldsLess(x, y) ==
    IF x.name # y.name THEN NameRank(x.name) < NameRank(y.name)
    ELSE IF Len(x.inline) # Len(y.inline) THEN Len(x.inline) < Len(y.inline)
    ELSE byIndexLess(x, y)

Less(mode, x, y) == IF mode = "fields" THEN fieldsLess(x, y) ELSE byIndexLess(x, y)

RECURSIVE Sort(_, _)
Sort(mode, s) ==
    IF s = <<>> THEN <<>>
    ELSE LET m == CHOOSE i \in 1..Len(s) :
                      \A j \in 1..Len(s) : j # i => ~Less(mode, s[j], s[i])
         IN  <<s[m]>> \o Sort(mode, Remove(s, m))

dominantFieldBuggy(fields) ==
    [fd |-> fields[1], ok |-> TRUE]

dominantField(fields) ==
    IF Len(fields) > 1 /\ Len(fields[1].inline) = Len(fields[2].inline)
    THEN [fd |-> fields[1], ok |-> FALSE]
    ELSE [fd |-> fields[1], ok |-> TRUE]

(* the offsets from the struct to the field a description stands for *)
FullPathOf(fd) == IF fd.inline = <<>> THEN <<fd.idx>> ELSE fd.inline

(* fd.inline = []int{i, fd.idx}  or  append([]int{i}, fd.inline...) *)
InlinePath(i, fd) ==
    IF fd.inline = <<>> THEN <<i, fd.idx>> ELSE <<i>> \o fd.inline

(* the loop over inlinesf.fl: each fd is a copy of the nested description *)
InlinedFields(i, inlinesf) ==
    [k \in 1..Len(inlinesf.fl) |->
        [inlinesf.fl[k] EXCEPT !.inline = InlinePath(i, inlinesf.fl[k])]]

(* the one-iteration-per-name loop of describeStructSlow *)
RECURSIVE Dominance(_, _, _, _)
Dominance(fields, i, sd, strict) ==
    IF i > Len(fields) THEN [err |-> NoErr, sd |-> sd]
    ELSE LET fi == fields[i]
             name == fi.name
             same == {a \in 1..(Len(fields) - i + 1) :
                         \A b \in 0..(a - 1) : fields[i + b].name = name}
             advance == CHOOSE a \in same : \A b \in same : b <= a
             dom == dominantField(SubSeq(fields, i, i + advance - 1))
         IN  IF advance = 1
             THEN Dominance(fields, i + advance,
                            [sd EXCEPT !.fl = Append(@, fi),
                                       !.fm = (name :> fi) @@ @],
                            strict)
             ELSE IF ~dom.ok \/ ~codec.overwriteDuplicatedInlinedFields \/ strict
             THEN [err |-> Err("DuplicatedKey", name), sd |-> NoSd]
             ELSE Dominance(fields, i + advance,
                            [sd EXCEPT !.fl = Append(@, dom.fd),
                                       !.fm = (name :> dom.fd) @@ @],
                            strict)

(* ------------------------------------------------------ reflect.Value *)
(* A value is read with its type: int 0/1, string "" or "s", slice a      *)
(* sequence, array a sequence of its length, map [isnil, kv], pointer and  *)
(* interface <<>> (nil) or <<x>>, struct the sequence of its fields.       *)
TZeroer(zeroIsZero) ==
    Ty("zeroer", "Zeroer", <<>>, <<>>, IF zeroIsZero THEN 1 ELSE 0)

IsTime(t) == t.kind = "struct" /\ t.name = "time.Time"

NilMap == [isnil |-> TRUE, kv |-> <<>>]

RECURSIVE ZeroValue(_)
ZeroValue(t) ==
    CASE t.kind = "string" -> ""
      [] t.kind \in {"slice", "ptr", "iface"} -> <<>>
      [] t.kind = "array" -> [k \in 1..t.n |-> 0]
      [] t.kind = "map" -> NilMap
      [] t.kind = "struct" -> [k \in 1..NumField(t) |-> ZeroValue(t.fields[k].Type)]
      [] OTHER -> 0

(* v.IsZero() *)
RECURSIVE IsZeroValue(_, _)
IsZeroValue(v, t) ==
    CASE t.kind = "map" -> v.isnil
      [] t.kind = "array" -> \A k \in 1..t.n : v[k] = 0
      [] t.kind = "struct" ->
            \A k \in 1..NumField(t) : IsZeroValue(v[k], t.fields[k].Type)
      [] t.kind = "string" -> v = ""
      [] t.kind \in {"slice", "ptr", "iface"} -> v = <<>>
      [] OTHER -> v = 0

(* v.Len() of an array, map, slice or string *)
ValueLen(v, t) ==
    CASE t.kind = "map" -> Cardinality(DOMAIN v.kv)
      [] t.kind = "string" -> IF v = "" THEN 0 ELSE 1
      [] OTHER -> Len(v)

(* emptiness taken for v.IsZero(), whatever the kind *)
isEmptyIsZero(v, t, omitZeroStruct) == IsZeroValue(v, t)

(* isEmpty: a Zeroer (a type of kind "zeroer", whose n says what IsZero    *)
(* answers on the zero value, and time.Time) reports its own zero state    *)
RECURSIVE isEmpty(_, _, _)
isEmpty(v, t, omitZeroStruct) ==
    IF t.kind = "zeroer" THEN v = 0 /\ t.n = 1
    ELSE IF IsTime(t) THEN IsZeroValue(v, t)
    ELSE CASE t.kind \in {"array", "map", "slice", "string"} -> ValueLen(v, t) = 0
           [] t.kind = "struct" ->
                IF ~omitZeroStruct THEN FALSE
                ELSE IF IsTime(t) THEN IsZeroValue(v, t)
                ELSE \A i \in 1..NumField(t) :
                        \/ ~t.fields[i].Exported /\ ~t.fields[i].Anonymous
                        \/ isEmpty(v[i], t.fields[i].Type, omitZeroStruct)
           [] OTHER -> IsZeroValue(v, t)

(* v.FieldByIndex(index) under recover(): the field, its type, whether it  *)
(* was reached through exported fields only, or the recovered panic        *)
RECURSIVE fieldByIndexErr(_, _, _)
fieldByIndexErr(v, t, index) ==
    LET sf == t.fields[index[1] + 1]
        fv == v[index[1] + 1]
    IN  IF Len(index) = 1
        THEN [err |-> NoErr, v |-> fv, t |-> sf.Type, ro |-> ~sf.Exported]
        ELSE IF sf.Type.kind = "ptr" /\ Elem(sf.Type).kind = "struct"
        THEN IF fv = <<>>
             THEN [err |-> Err("NilEmbedded", ""), v |-> fv, t |-> sf.Type, ro |-> FALSE]
             ELSE LET r == fieldByIndexErr(fv[1], Elem(sf.Type), Tail(index))
                  IN  [r EXCEPT !.ro = @ \/ ~sf.Exported]
        ELSE LET r == fieldByIndexErr(fv, sf.Type, Tail(index))
             IN  [r EXCEPT !.ro = @ \/ ~sf.Exported]

(* the struct v with the field at index set to x (pointers on the way are  *)
(* not nil)                                                                *)
RECURSIVE SetByIndex(_, _, _, _)
SetByIndex(v, t, index, x) ==
    LET sf == t.fields[index[1] + 1]
        fv == v[index[1] + 1]
    IN  IF Len(index) = 1 THEN [v EXCEPT ![index[1] + 1] = x]
        ELSE IF sf.Type.kind = "ptr"
        THEN [v EXCEPT ![index[1] + 1] =
                 <<SetByIndex(fv[1], Elem(sf.Type), Tail(index), x)>>]
        ELSE [v EXCEPT ![index[1] + 1] = SetByIndex(fv, sf.Type, Tail(index), x)]

(* getInlineField: the field at index, after allocating the nil struct     *)
(* pointers above it; val is the destination as it is left.  The parent    *)
(* is Set to reflect.New(fParent.Type().Elem()): Type.Elem panics, outside *)
(* of any recover, when the parent is a struct and not a pointer.          *)
RECURSIVE getInlineField(_, _, _)
getInlineField(val, t, index) ==
    LET inlineParent == Front(index)
        Found(in, r) == [err |-> r.err, val |-> in, v |-> r.v, t |-> r.t, ro |-> r.ro]
        Again(val2) == Found(val2, fieldByIndexErr(val2, t, index))
        Allocate(fParent) ==
            IF fParent.err.e # "nil" THEN fParent
            ELSE IF fParent.t.kind # "ptr"
            THEN [fParent EXCEPT !.err = Err("panic", "reflect: Elem of invalid type")]
            ELSE Again(SetByIndex(fParent.val, t, inlineParent,
                                  <<ZeroValue(Elem(fParent.t))>>))
        Parent(direct) ==
            Allocate(IF direct.err.e = "nil" THEN Found(val, direct)
                     ELSE getInlineField(val, t, inlineParent))
        First(r) == IF r.err.e = "nil" THEN Found(val, r)
                    ELSE Parent(fieldByIndexErr(val, t, inlineParent))
    IN  First(fieldByIndexErr(val, t, index))

(* ------------------------------------------------- goroutine state *)
(* the document a ValueWriter's DocumentWriter received *)
NoW == [opened |-> 0, closed |-> 0, elems |-> <<>>]

(* what was read from a ValueReader's DocumentReader *)
NoRd == [opened |-> FALSE, read |-> 0, done |-> 0, eod |-> FALSE]

(* what a call returns: the error, the *structDescription (an address, 0   *)
(* for nil), and for the codec's methods the writer, the reader and the    *)
(* destination as the call leaves them                                     *)
NoRet == [err |-> NoErr, sd |-> 0, w |-> NoW, rd |-> NoRd, val |-> <<>>]

(* a goroutine: the frames (innermost first), the value being returned,    *)
(* and the structDescriptions the cache points to, as it sees them         *)
Returning(st, rest, r) == [st EXCEPT !.stack = rest, !.ret = r, !.returning = TRUE]

Running(st, stack) == [st EXCEPT !.stack = stack, !.ret = NoRet, !.returning = FALSE]

Failing(st, rest, e) == Returning(st, rest, [NoRet EXCEPT !.err = e])

(* describeStruct(r, t, useJSONStructTags, errorOnDuplicates), about to   *)
(* do sc.cache.Load(t)                                                     *)
DescFrame(t, json, strict) ==
    [k |-> "desc", t |-> t, json |-> json, strict |-> strict,
     phase |-> "load", i |-> 0, fields |-> <<>>, sd |-> NoSd]

(* describeStructSlow: one iteration of the loop over t's fields, or, past *)
(* the last field, the sort, the dominance loop and the final sort         *)
StepDesc(st) ==
    LET f == Head(st.stack)
        rest == Tail(st.stack)
        next == Running(st, <<[f EXCEPT !.i = @ + 1]>> \o rest)
    IN  IF f.i >= NumField(f.t)
        THEN LET r == Dominance(Sort("fields", f.fields), 1, f.sd, f.strict)
             IN  IF r.err.e # "nil" THEN Failing(st, rest, r.err)
                 ELSE Running(st, <<[f EXCEPT !.phase = "store",
                                         !.sd = [r.sd EXCEPT !.fl = Sort("index", @)]]>>
                                  \o rest)
        ELSE
        LET sf == f.t.fields[f.i + 1]
            stags == IF f.json THEN parseJSONStructTags(sf) ELSE parseStructTags(sf)
            description ==
                [name |-> stags.Name, fieldName |-> sf.Name, idx |-> f.i,
                 omitEmpty |-> stags.OmitEmpty, minSize |-> stags.MinSize,
                 truncate |-> stags.Truncate, inline |-> <<>>,
                 encoder |-> LookupEncoder(sf.Type),
                 decoder |-> LookupDecoder(sf.Type)]
            inl == [f EXCEPT !.sd.inline = TRUE]
            nested(t) == Running(st, <<DescFrame(t, f.json, f.strict),
                                       [inl EXCEPT !.phase = "wait"]>> \o rest)
        IN  IF ~sf.Exported /\ (~codec.allowUnexportedFields \/ ~sf.Anonymous)
            THEN next
            ELSE IF stags.Skip THEN next
            ELSE IF stags.Inline
            THEN CASE sf.Type.kind = "map" ->
                        IF f.sd.inlineMap >= 0
                        THEN Failing(st, rest, Err("MultipleInlineMaps", ""))
                        ELSE IF sf.Type.n # 1
                        THEN Failing(st, rest, Err("InlineMapKeys", ""))
                        ELSE Running(st, <<[inl EXCEPT !.sd.inlineMap = f.i,
                                                       !.i = @ + 1]>> \o rest)
                   [] sf.Type.kind = "ptr" ->
                        IF Elem(sf.Type).kind # "struct"
                        THEN Failing(st, rest, Err("InlineTarget", ""))
                        ELSE nested(Elem(sf.Type))
                   [] sf.Type.kind = "struct" -> nested(sf.Type)
                   [] OTHER -> Failing(st, rest, Err("InlineTarget", ""))
            ELSE Running(st, <<[f EXCEPT !.fields = Append(@, description),
                                         !.i = @ + 1]>> \o rest)

(* the nested describeStruct call of describeStructSlow has returned *)
ReturnDesc(st) ==
    LET f == Head(st.stack)
        rest == Tail(st.stack)
    IN  IF st.ret.err.e # "nil" THEN Returning(st, rest, st.ret)
        ELSE Running(st, <<[f EXCEPT !.fields =
                                        @ \o InlinedFields(f.i, st.heap[st.ret.sd]),
                                     !.i = @ + 1, !.phase = "slow"]>> \o rest)

(* ------------------------------------------------------ EncodeValue *)
EncFrame(t, val, ec, vw) ==
    [k |-> "enc", t |-> t, val |-> val, ec |-> ec, vw |-> vw,
     phase |-> "entry", sd |-> 0, pos |-> 1, w |-> NoW]

EncReturn(st, e, w) ==
    Returning(st, Tail(st.stack),
              [NoRet EXCEPT !.err = e, !.sd = Head(st.stack).sd, !.w = w,
                            !.val = Head(st.stack).val])

(* lookupElementEncoder: an interface field is replaced by the value it    *)
(* holds, with the encoder of that value's type; a nil interface is "no    *)
(* concrete value" (errInvalidValue)                                       *)
lookupElementEncoder(origEncoder, v, t) ==
    IF t.kind # "iface"
    THEN [encoder |-> origEncoder, v |-> v, t |-> t, err |-> NoErr]
    ELSE IF v = <<>>
    THEN [encoder |-> "nil", v |-> v, t |-> t, err |-> Err("errInvalidValue", "")]
    ELSE [encoder |-> LookupEncoder(v[1].t), v |-> v[1].v, t |-> v[1].t,
          err |-> IF LookupEncoder(v[1].t) = "nil"
                  THEN Err("NoEncoder", "") ELSE NoErr]

(* desc ranges over sd.fl by value: the assignments EncodeValue makes to   *)
(* desc (omitEmpty, encoder) leave the description sd as it was            *)
RangedByPointer(sd, pos, desc) == [sd EXCEPT !.fl[pos] = desc]

RangedByValue(sd, pos, desc) == sd

(* inlineMapEncoder.encodeMapElements: one element per entry of the inline *)
(* map whose key is no field name; a key that is one is an error under the *)
(* strict policy and is left out otherwise                                 *)
RECURSIVE encodeMapElements(_, _, _, _, _)
encodeMapElements(ec, vw, w, keys, names) ==
    IF keys = {} THEN [err |-> NoErr, w |-> w]
    ELSE LET key == CHOOSE x \in keys : \A y \in keys : NameRank(x) <= NameRank(y)
         IN  IF key \in names
             THEN IF ec.errorOnInlineDuplicates
                  THEN [err |-> Err("InlineMapKeyConflict", key), w |-> w]
                  ELSE encodeMapElements(ec, vw, w, keys \ {key}, names)
             ELSE IF vw.fail = "WriteDocumentElement"
             THEN [err |-> Err("WriterError", "WriteDocumentElement"), w |-> w]
             ELSE encodeMapElements(ec, vw, [w EXCEPT !.elems = Append(@, key)],
                                    keys \ {key}, names)

(* the document is left open *)
EncodeEndOpen(st) == EncReturn(st, NoErr, Head(st.stack).w)

(* return dw.WriteDocumentEnd() *)
EncodeEnd(st) ==
    LET f == Head(st.stack)
    IN  IF f.vw.fail = "WriteDocumentEnd"
        THEN EncReturn(st, Err("WriterError", f.vw.fail), f.w)
        ELSE EncReturn(st, NoErr, [f.w EXCEPT !.closed = @ + 1])

StepEnc(st) ==
    LET f == Head(st.stack)
        rest == Tail(st.stack)
        sd == st.heap[f.sd]
    IN  CASE f.phase = "entry" ->
              IF f.t.kind # "struct"
              THEN EncReturn(st, Err("ValueEncoderError", ""), f.w)
              ELSE Running(st, <<DescFrame(f.t, f.ec.useJSONStructTags,
                                           f.ec.errorOnInlineDuplicates),
                                 [f EXCEPT !.phase = "describe"]>> \o rest)
          [] f.phase = "fields" /\ f.pos > Len(sd.fl) ->
              Running(st, <<[f EXCEPT !.phase = "map"]>> \o rest)
          [] f.phase = "fields" /\ f.pos <= Len(sd.fl) ->
              LET desc == sd.fl[f.pos]
                  fr == IF desc.inline = <<>>
                        THEN [err |-> NoErr, v |-> f.val[desc.idx + 1],
                              t |-> f.t.fields[desc.idx + 1].Type]
                        ELSE fieldByIndexErr(f.val, f.t, desc.inline)
                  omitEmpty == desc.omitEmpty \/ f.ec.omitEmpty
                  le == lookupElementEncoder(desc.encoder, fr.v, fr.t)
                  st1 == [st EXCEPT !.heap[f.sd] =
                             RangedByValue(sd, f.pos,
                                 [desc EXCEPT !.omitEmpty = omitEmpty,
                                              !.encoder = le.encoder])]
                  continue(w) == Running(st1, <<[f EXCEPT !.pos = @ + 1, !.w = w]>>
                                              \o rest)
                  written == [f.w EXCEPT !.elems = Append(@, desc.name)]
                  ectx == [f.ec EXCEPT !.omitEmpty = FALSE,
                                       !.minSize = desc.minSize \/ f.ec.minSize]
              IN  IF fr.err.e # "nil" THEN Running(st, <<[f EXCEPT !.pos = @ + 1]>> \o rest)
                  ELSE IF le.err.e \notin {"nil", "errInvalidValue"}
                  THEN EncReturn(st1, le.err, f.w)
                  ELSE IF le.err.e = "errInvalidValue"
                  THEN IF omitEmpty THEN continue(f.w)
                       ELSE IF f.vw.fail \in {"WriteDocumentElement", "WriteNull"}
                       THEN EncReturn(st1, Err("WriterError", f.vw.fail),
                                      IF f.vw.fail = "WriteNull" THEN written ELSE f.w)
                       ELSE continue(written)
                  ELSE IF le.encoder = "nil"
                  THEN EncReturn(st1, Err("NoEncoder", ""), f.w)
                  ELSE IF omitEmpty /\
                          (IF le.t.kind = "iface" THEN le.v = <<>>
                           ELSE isEmpty(le.v, le.t, codec.encodeOmitDefaultStruct
                                                    \/ f.ec.omitZeroStruct))
                  THEN continue(f.w)
                  ELSE IF f.vw.fail = "WriteDocumentElement"
                  THEN EncReturn(st1, Err("WriterError", f.vw.fail), f.w)
                  ELSE IF le.t.kind = "struct" /\ ~IsTime(le.t)
                  THEN Running(st1, <<EncFrame(le.t, le.v, ectx, f.vw),
                                      [f EXCEPT !.phase = "wait", !.w = written]>>
                                    \o rest)
                  ELSE continue(written)
          [] f.phase = "map" ->
              IF sd.inlineMap < 0
              THEN Running(st, <<[f EXCEPT !.phase = "end"]>> \o rest)
              ELSE LET r == encodeMapElements(f.ec, f.vw, f.w,
                                              DOMAIN f.val[sd.inlineMap + 1].kv,
                                              DOMAIN sd.fm)
                   IN  IF r.err.e # "nil" THEN EncReturn(st, r.err, r.w)
                       ELSE Running(st, <<[f EXCEPT !.phase = "end", !.w = r.w]>>
                                        \o rest)
          [] f.phase = "end" -> EncodeEnd(st)

(* a call made by EncodeValue has returned: describeStruct, or the encoder *)
(* of a struct field                                                       *)
ReturnEnc(st) ==
    LET f == Head(st.stack)
        rest == Tail(st.stack)
    IN  IF st.ret.err.e # "nil" THEN EncReturn(st, st.ret.err, f.w)
        ELSE IF f.phase = "wait"
        THEN Running(st, <<[f EXCEPT !.phase = "fields", !.pos = @ + 1]>> \o rest)
        ELSE IF f.vw.fail = "WriteDocument"
        THEN EncReturn(st, Err("WriterError", f.vw.fail), f.w)
        ELSE Running(st, <<[f EXCEPT !.phase = "fields", !.sd = st.ret.sd,
                                     !.w.opened = @ + 1]>> \o rest)

(* ------------------------------------------------------ DecodeValue *)
(* DecodeError.keys is built while the error travels up: innermost first   *)
newDecodeError(key, original) ==
    IF original.e # "DecodeError"
    THEN [e |-> "DecodeError", info |-> "", keys |-> <<key>>, wrapped |-> <<original>>]
    ELSE [original EXCEPT !.keys = Append(@, key)]

(* DecodeError.Keys *)
Keys(de) == [i \in 1..Len(de.keys) |-> de.keys[Len(de.keys) + 1 - i]]

DecFrame(t, val, canSet, dc, vr) ==
    [k |-> "dec", t |-> t, val |-> val, canSet |-> canSet, dc |-> dc, vr |-> vr,
     phase |-> "entry", sd |-> 0, pos |-> 1, rd |-> NoRd, decoder |-> <<>>,
     pend |-> [mode |-> "none", name |-> "", at |-> <<>>]]

DecReturn(st, e, val, rd) ==
    Returning(st, Tail(st.stack),
              [NoRet EXCEPT !.err = e, !.sd = Head(st.stack).sd, !.rd = rd,
                            !.val = val])

(* the ValueReader ReadElement hands out for an element's value *)
ElementReader(el, vr) == [type |-> el.vt, doc |-> el.sub, fail |-> vr.fail]

(* the registry's decoder of type d, called on a destination of type e;    *)
(* the decoders of this model's other kinds                                *)
DecodeExternal(d, e, el, cur) ==
    IF d.kind # e.kind THEN [err |-> Err("ValueDecoderError", ""), v |-> cur]
    ELSE CASE e.kind = "int" /\ el.vt = "int" -> [err |-> NoErr, v |-> el.v]
           [] e.kind = "string" /\ el.vt = "string" -> [err |-> NoErr, v |-> "s"]
           [] e.kind = "ptr" /\ Elem(e).kind = "int" /\ el.vt = "int" ->
                [err |-> NoErr, v |-> <<el.v>>]
           [] e.kind = "ptr" /\ el.vt = "null" -> [err |-> NoErr, v |-> <<>>]
           [] e.kind = "iface" /\ el.vt = "int" ->
                [err |-> NoErr, v |-> <<[t |-> TInt, v |-> el.v]>>]
           [] e.kind = "iface" /\ el.vt = "string" ->
                [err |-> NoErr, v |-> <<[t |-> TString, v |-> "s"]>>]
           [] e.kind = "iface" /\ el.vt = "null" -> [err |-> NoErr, v |-> <<>>]
           [] e.kind = "iface" /\ el.vt = "doc" ->
                [err |-> NoErr, v |-> <<[t |-> TSlice, v |-> <<>>]>>]
           [] OTHER -> [err |-> Err("CannotDecode", ""), v |-> cur]

(* deepZero: Type.Elem panics on the type of a struct field *)
deepZero(st) ==
    [panics |-> \E i \in 1..NumField(st) :
                    st.fields[i].Exported /\ st.fields[i].Type.kind = "struct",
     valid |-> NumField(st) > 0,
     v |-> ZeroValue(st)]

WriteField(val, t, at, x) ==
    IF Len(at) = 1 THEN [val EXCEPT ![at[1] + 1] = x] ELSE SetByIndex(val, t, at, x)

(* a decoder DecodeValue called on a field, on the pointer an interface    *)
(* field holds, or on a new element of the inline map, has returned err    *)
(* and left v in its destination                                           *)
DecFinish(st, f, err, v) ==
    LET rest == Tail(st.stack)
        val == CASE f.pend.mode = "field" -> WriteField(f.val, f.t, f.pend.at, v)
                 [] f.pend.mode = "ifaceptr" ->
                      WriteField(f.val, f.t, f.pend.at,
                                 <<[t |-> f.pend.pt, v |-> <<v>>]>>)
                 [] OTHER ->
                      IF err.e # "nil" THEN f.val
                      ELSE [f.val EXCEPT ![st.heap[f.sd].inlineMap + 1].kv =
                               (f.pend.name :> v) @@ @]
        done == Running(st, <<[f EXCEPT !.phase = "loop", !.pos = @ + 1,
                                        !.val = val, !.rd.done = @ + 1]>> \o rest)
    IN  IF err.e = "nil" THEN done
        ELSE IF err.e = "panic" \/ f.pend.mode = "mapelem"
        THEN DecReturn(st, err, val, f.rd)
        ELSE DecReturn(st, newDecodeError(f.pend.name, err), val, f.rd)

(* decoder.DecodeValue(ctx, vr, dest): the struct codec is the decoder of  *)
(* struct types, a decoder of the registry that of the others              *)
DecInvoke(st, f, d, e, cur, ctx, el) ==
    IF d.kind = "struct" /\ ~IsTime(d)
    THEN Running(st, <<DecFrame(e, cur, TRUE, ctx, ElementReader(el, f.vr)),
                       [f EXCEPT !.phase = "wait"]>> \o Tail(st.stack))
    ELSE LET r == DecodeExternal(d, e, el, cur)
         IN  DecFinish(st, f, r.err, r.v)

(* the element is passed over without being skipped *)
skipNothing(f, rd) == [f EXCEPT !.pos = @ + 1, !.rd = rd]

(* err = vr.Skip(); continue: the frame past an element skipped *)
skipValue(f, rd) == [f EXCEPT !.pos = @ + 1, !.rd = [rd EXCEPT !.done = @ + 1]]

StepDec(st) ==
    LET f == Head(st.stack)
        rest == Tail(st.stack)
        sd == st.heap[f.sd]
    IN  CASE f.phase = "entry" ->
              IF ~f.canSet \/ f.t.kind # "struct"
              THEN DecReturn(st, Err("ValueDecoderError", ""), f.val, f.rd)
              ELSE CASE f.vr.type \in {"none", "doc"} ->
                          Running(st, <<DescFrame(f.t, f.dc.useJSONStructTags, FALSE),
                                        [f EXCEPT !.phase = "describe"]>> \o rest)
                     [] f.vr.type \in {"null", "undefined"} ->
                          IF f.vr.fail = "ReadNull"
                          THEN DecReturn(st, Err("ReaderError", f.vr.fail), f.val, f.rd)
                          ELSE DecReturn(st, NoErr, ZeroValue(f.t), f.rd)
                     [] OTHER -> DecReturn(st, Err("CannotDecode", ""), f.val, f.rd)
          [] f.phase = "loop" /\ f.vr.fail = "ReadElement" ->
              DecReturn(st, Err("ReaderError", f.vr.fail), f.val, f.rd)
          [] f.phase = "loop" /\ f.vr.fail # "ReadElement" /\ f.pos > Len(f.vr.doc) ->
              DecReturn(st, NoErr, f.val, [f.rd EXCEPT !.eod = TRUE])
          [] f.phase = "loop" /\ f.vr.fail # "ReadElement" /\ f.pos <= Len(f.vr.doc) ->
              LET el == f.vr.doc[f.pos]
                  rd == [f.rd EXCEPT !.read = @ + 1]
                  exact == el.name \in DOMAIN sd.fm
                  exists == exact \/ ToLower(el.name) \in DOMAIN sd.fm
                  fd == IF exact THEN sd.fm[el.name] ELSE sd.fm[ToLower(el.name)]
                  mt == f.t.fields[sd.inlineMap + 1].Type
                  m == f.val[sd.inlineMap + 1]
                  made == IF m.isnil
                          THEN [f.val EXCEPT ![sd.inlineMap + 1] =
                                   [isnil |-> FALSE, kv |-> <<>>]]
                          ELSE f.val
                  Matched(gi) ==
                      LET at == FullPathOf(fd)
                          alloc == gi.t.kind = "ptr" /\ gi.v = <<>>
                          field == IF alloc THEN <<ZeroValue(Elem(gi.t))>> ELSE gi.v
                          val2 == IF alloc THEN WriteField(gi.val, f.t, at, field)
                                  ELSE gi.val
                          dctx == [f.dc EXCEPT !.truncate = fd.truncate \/ f.dc.truncate]
                      IN  IF gi.err.e # "nil" THEN DecReturn(st, gi.err, gi.val, rd)
                          ELSE IF gi.t.kind = "iface" /\ gi.v # <<>>
                                  /\ gi.v[1].t.kind = "ptr"
                          THEN IF gi.v[1].v = <<>>
                               THEN DecReturn(st, Err("panic", "Type of zero Value"),
                                              gi.val, rd)
                               ELSE IF LookupDecoder(Elem(gi.v[1].t)) = "nil"
                               THEN DecReturn(st, Err("NoDecoder", ""), gi.val, rd)
                               ELSE DecInvoke(st,
                                        [f EXCEPT !.val = gi.val, !.rd = rd,
                                                  !.decoder = <<Elem(gi.v[1].t)>>,
                                                  !.pend = [mode |-> "ifaceptr",
                                                            name |-> fd.name,
                                                            at |-> at,
                                                            pt |-> gi.v[1].t]],
                                        Elem(gi.v[1].t), Elem(gi.v[1].t), gi.v[1].v[1],
                                        f.dc, el)
                          ELSE IF gi.ro
                          THEN DecReturn(st, newDecodeError(fd.name,
                                                            Err("NotSettable", "")),
                                         gi.val, rd)
                          ELSE IF fd.decoder = "nil"
                          THEN DecReturn(st, newDecodeError(fd.name, Err("NoDecoder", "")),
                                         val2, rd)
                          ELSE DecInvoke(st,
                                   [f EXCEPT !.val = val2, !.rd = rd,
                                             !.pend = [mode |-> "field",
                                                       name |-> fd.name, at |-> at]],
                                   gi.t, gi.t, field, dctx, el)
              IN  IF ~exists
                  THEN IF sd.inlineMap < 0
                       THEN IF f.vr.fail = "Skip"
                            THEN DecReturn(st, Err("ReaderError", f.vr.fail), f.val, rd)
                            ELSE Running(st, <<skipValue(f, rd)>> \o rest)
                       ELSE DecInvoke(st, [f EXCEPT !.val = made, !.rd = rd,
                                                    !.pend = [mode |-> "mapelem",
                                                              name |-> el.name,
                                                              at |-> <<>>]],
                                      f.decoder[1], Elem(mt), ZeroValue(Elem(mt)),
                                      f.dc, el)
                  ELSE Matched(IF fd.inline = <<>>
                               THEN [err |-> NoErr, val |-> f.val, v |-> f.val[fd.idx + 1],
                                     t |-> f.t.fields[fd.idx + 1].Type,
                                     ro |-> ~f.t.fields[fd.idx + 1].Exported]
                               ELSE getInlineField(f.val, f.t, fd.inline))

(* a call made by DecodeValue has returned: describeStruct, or the struct  *)
(* codec called as the decoder of a struct                                 *)
ReturnDec(st) ==
    LET f == Head(st.stack)
        rest == Tail(st.stack)
        sd == st.heap[st.ret.sd]
        val1 == IF codec.decodeZeroStruct \/ f.dc.zeroStructs
                THEN ZeroValue(f.t) ELSE f.val
        deep == codec.decodeDeepZeroInline /\ sd.inline
        val2 == IF deep THEN deepZero(f.t).v ELSE val1
        et == Elem(f.t.fields[sd.inlineMap + 1].Type)
    IN  IF f.phase = "wait" THEN DecFinish(st, f, st.ret.err, st.ret.val)
        ELSE IF st.ret.err.e # "nil" THEN DecReturn(st, st.ret.err, f.val, f.rd)
        ELSE IF deep /\ (deepZero(f.t).panics \/ ~deepZero(f.t).valid)
        THEN DecReturn(st, Err("panic", "deepZero"), val1, f.rd)
        ELSE IF sd.inlineMap >= 0 /\ LookupDecoder(et) = "nil"
        THEN DecReturn(st, Err("NoDecoder", ""), val2, f.rd)
        ELSE IF f.vr.fail = "ReadDocument"
        THEN DecReturn(st, Err("ReaderError", f.vr.fail), val2, f.rd)
        ELSE Running(st, <<[f EXCEPT !.phase = "loop", !.sd = st.ret.sd,
                                     !.val = val2, !.rd.opened = TRUE,
                                     !.decoder = IF sd.inlineMap >= 0
                                                 THEN <<et>> ELSE <<>>]>> \o rest)

(* ------------------------------------------------- running a goroutine *)
(* one local step: the innermost frame goes on, or takes what the call it  *)
(* made returns                                                            *)
Step(st) ==
    LET f == Head(st.stack)
    IN  IF st.returning
        THEN CASE f.k = "desc" -> ReturnDesc(st)
               [] f.k = "enc" -> ReturnEnc(st)
               [] f.k = "dec" -> ReturnDec(st)
        ELSE CASE f.k = "desc" -> StepDesc(st)
               [] f.k = "enc" -> StepEnc(st)
               [] f.k = "dec" -> StepDec(st)

(* a goroutine stops at its next cache access, or when its call returned *)
AtCache(st) ==
    /\ st.stack # <<>>
    /\ ~st.returning
    /\ Head(st.stack).k = "desc"
    /\ Head(st.stack).phase \in {"load", "store"}

Halted(st) == st.stack = <<>> \/ AtCache(st)

RECURSIVE Run(_)
Run(st) == IF Halted(st) THEN st ELSE Run(Step(st))

(* ------------------------------------------------------ struct types *)
Names == {"a", "b"}

Field(name, typ, bsonName, jsonName, omitEmpty) ==
    SField(name, TRUE, FALSE, typ, Tag(bsonName, omitEmpty, FALSE, FALSE),
           Tag(jsonName, omitEmpty, FALSE, FALSE))

Plain(n) == Field("F", TInt, n, n, FALSE)

Skipped(n) == SField("F", TRUE, FALSE, TInt, Tag(n, FALSE, FALSE, TRUE),
                     Tag(n, FALSE, FALSE, TRUE))

Inline(t) == SField("E", TRUE, TRUE, t, Tag("", FALSE, TRUE, FALSE),
                    Tag("", FALSE, TRUE, FALSE))

StructsOf(opts, n) ==
    {TStruct("S", fs) : fs \in UNION {[1..k -> opts] : k \in 1..n}}

(* struct { A int `bson:"a"` } *)
StructA == TStruct("S", <<Plain("a")>>)

(* the structs a field may inline: "a" directly, or through StructA *)
Nested == StructsOf({Plain("a"), Inline(StructA)}, 2)

DescribeTypes ==
    StructsOf({Plain(n) : n \in Names} \cup {Skipped("a")}
              \cup {Inline(t) : t \in Nested}
              \cup {Inline(TPtr(StructA))}, MaxFields)

(* ------------------------------------------------------------ actions *)
NoCall == [op |-> "none", t |-> TInt, json |-> FALSE, strict |-> FALSE,
           val |-> <<>>, ctx |-> <<>>, io |-> <<>>]

Codecs ==
    [overwriteDuplicatedInlinedFields : BOOLEAN, allowUnexportedFields : BOOLEAN,
     encodeOmitDefaultStruct : BOOLEAN, decodeZeroStruct : BOOLEAN,
     decodeDeepZeroInline : BOOLEAN]

(* newStructCodec *)
newStructCodec ==
    [overwriteDuplicatedInlinedFields |-> TRUE, allowUnexportedFields |-> FALSE,
     encodeOmitDefaultStruct |-> FALSE, decodeZeroStruct |-> FALSE,
     decodeDeepZeroInline |-> FALSE]

InitProcs ==
    [p \in Procs |-> [stack |-> <<>>, ret |-> NoRet, returning |-> FALSE,
                      call |-> NoCall, n |-> 0]]

Goroutine(p) ==
    [stack |-> procs[p].stack, ret |-> procs[p].ret,
     returning |-> procs[p].returning, heap |-> heap]

(* goroutine p runs from st to its next cache access *)
Proceed(p, st, call, n) ==
    LET r == Run(st)
    IN  /\ procs' = [procs EXCEPT ![p] =
                        [stack |-> r.stack, ret |-> r.ret, returning |-> r.returning,
                         call |-> call, n |-> n]]
        /\ heap' = r.heap

RECURSIVE Calls(_)
Calls(P) == IF P = {} THEN 0
            ELSE LET p == CHOOSE q \in P : TRUE
                 IN  procs[p].n + Calls(P \ {p})

(* goroutine p is between two calls, and calls are left to make *)
Idle(p) == procs[p].stack = <<>> /\ Calls(Procs) < MaxCalls

Start(p, frame, call) ==
    /\ Proceed(p, Running(Goroutine(p), <<frame>>), call, procs[p].n + 1)
    /\ UNCHANGED <<codec, cache, nextAddr>>

(* a caller invokes describeStruct *)
CallDescribe(p, t, json, strict) ==
    /\ Idle(p)
    /\ Start(p, DescFrame(t, json, strict),
          [NoCall EXCEPT !.op = "describe", !.t = t, !.json = json,
                         !.strict = strict])

(* a caller invokes EncodeValue(ec, vw, val) *)
CallEncode(p, t, val, ec, vw) ==
    /\ Idle(p)
    /\ Start(p, EncFrame(t, val, ec, vw),
          [op |-> "encode", t |-> t, json |-> ec.useJSONStructTags,
           strict |-> ec.errorOnInlineDuplicates, val |-> val, ctx |-> ec,
           io |-> vw])

(* a caller invokes DecodeValue(dc, vr, val) *)
CallDecode(p, t, val, dc, vr) ==
    /\ Idle(p)
    /\ Start(p, DecFrame(t, val, TRUE, dc, vr),
          [op |-> "decode", t |-> t, json |-> dc.useJSONStructTags,
           strict |-> FALSE, val |-> val, ctx |-> dc, io |-> vr])

(* sc.cache.Load(t): a hit returns the cached description, a miss enters   *)
(* describeStructSlow, which allocates its structDescription               *)
Load(p) ==
    LET st == Goroutine(p)
        f == Head(st.stack)
    IN  /\ AtCache(st)
        /\ f.phase = "load"
        /\ IF f.t \in DOMAIN cache
           THEN /\ Proceed(p, Returning(st, Tail(st.stack),
                                        [NoRet EXCEPT !.sd = cache[f.t]]),
                           procs[p].call, procs[p].n)
                /\ UNCHANGED nextAddr
           ELSE /\ Proceed(p, Running(st, <<[f EXCEPT !.phase = "slow",
                                                      !.sd.addr = nextAddr]>>
                                          \o Tail(st.stack)),
                           procs[p].call, procs[p].n)
                /\ nextAddr' = nextAddr + 1
        /\ UNCHANGED <<codec, cache>>

(* sync.Map.Store: the entry for key is replaced *)
cacheStore(c, key, value) == (key :> value) @@ c

(* sync.Map.LoadOrStore: the entry for key is kept when there is one *)
cacheLoadOrStore(c, key, value) ==
    IF key \in DOMAIN c THEN c ELSE (key :> value) @@ c

(* v, loaded := sc.cache.LoadOrStore(t, ds); the description returned is   *)
(* the one the cache holds                                                 *)
LoadOrStore(p) ==
    LET st == Goroutine(p)
        f == Head(st.stack)
        c == cacheLoadOrStore(cache, f.t, f.sd.addr)
        h == IF c[f.t] = f.sd.addr THEN (f.sd.addr :> f.sd) @@ heap ELSE heap
    IN  /\ AtCache(st)
        /\ f.phase = "store"
        /\ cache' = c
        /\ Proceed(p, Returning([st EXCEPT !.heap = h], Tail(st.stack),
                                [NoRet EXCEPT !.sd = c[f.t]]),
                   procs[p].call, procs[p].n)
        /\ UNCHANGED <<codec, nextAddr>>

(* ------------------------------------- the descriptor builder alone *)
InitDescribe ==
    /\ codec \in {c \in Codecs : c = [newStructCodec EXCEPT
                     !.overwriteDuplicatedInlinedFields =
                         c.overwriteDuplicatedInlinedFields]}
    /\ cache = <<>>
    /\ heap = <<>>
    /\ procs = InitProcs
    /\ nextAddr = 1

NextDescribe ==
    \/ /\ procs[1].n = 0
       /\ \E t \in DescribeTypes, strict \in BOOLEAN :
             CallDescribe(1, t, FALSE, strict)
    \/ Load(1)
    \/ LoadOrStore(1)

SpecDescribe == InitDescribe /\ [][NextDescribe]_vars

(* --------------------------------------- goroutines sharing a codec *)
(* struct { A int `bson:"a" json:"a"`; I interface{} `bson:"b" json:"c"` } *)
Inner ==
    TStruct("Inner", <<Field("A", TInt, "a", "a", FALSE),
                       Field("I", TIface, "b", "c", FALSE)>>)

(* struct { X int `bson:"a" json:"b"`; Inner `bson:",inline" json:",inline"` } *)
Outer == TStruct("Outer", <<Field("X", TInt, "a", "b", FALSE), Inline(Inner)>>)

SharedTypes == {Outer}

(* a value of t none of whose parts is zero: pointers point to a zero     *)
(* value, interfaces hold the int 1, maps hold the keys "a" and "z"        *)
RECURSIVE Filled(_)
Filled(t) ==
    CASE t.kind = "iface" -> <<[t |-> TInt, v |-> 1]>>
      [] t.kind = "ptr" -> <<ZeroValue(Elem(t))>>
      [] t.kind = "string" -> "s"
      [] t.kind = "slice" -> <<1>>
      [] t.kind = "array" -> [k \in 1..t.n |-> 1]
      [] t.kind = "map" -> [isnil |-> FALSE, kv |-> ("a" :> 1) @@ ("z" :> 1)]
      [] t.kind = "struct" -> [i \in 1..NumField(t) |-> Filled(t.fields[i].Type)]
      [] OTHER -> 1

EncodeContext ==
    [useJSONStructTags |-> FALSE, errorOnInlineDuplicates |-> FALSE,
     omitEmpty |-> FALSE, omitZeroStruct |-> FALSE, minSize |-> FALSE]

DecodeContext ==
    [useJSONStructTags |-> FALSE, zeroStructs |-> FALSE, truncate |-> FALSE]

ValueWriter == [fail |-> "none"]

Element(name, vt, v, sub) == [name |-> name, vt |-> vt, v |-> v, sub |-> sub]

(* a ValueReader positioned on the document doc *)
DocumentReader(doc) == [type |-> "doc", doc |-> doc, fail |-> "none"]

Init ==
    /\ codec \in {c \in Codecs : c = [newStructCodec EXCEPT
                     !.overwriteDuplicatedInlinedFields =
                         c.overwriteDuplicatedInlinedFields]}
    /\ cache = <<>>
    /\ heap = <<>>
    /\ procs = InitProcs
    /\ nextAddr = 1

Next ==
    \/ \E p \in Procs, t \in SharedTypes, json \in BOOLEAN, strict \in BOOLEAN :
          CallEncode(p, t, Filled(t),
                     [EncodeContext EXCEPT !.useJSONStructTags = json,
                                           !.errorOnInlineDuplicates = strict,
                                           !.omitEmpty = TRUE],
                     ValueWriter)
    \/ \E p \in Procs, t \in SharedTypes, json \in BOOLEAN :
          CallDecode(p, t, ZeroValue(t),
                     [DecodeContext EXCEPT !.useJSONStructTags = json],
                     DocumentReader(<<Element("a", "int", 1, <<>>)>>))
    \/ \E p \in Procs : Load(p)
    \/ \E p \in Procs : LoadOrStore(p)

Spec == Init /\ [][Next]_vars

(* ------------------------------------------------- EncodeValue alone *)
InlineMap == Inline(TMap(TRUE, TInt))

(* the types of the fields of the structs encoded; a map is an inline map, *)
(* and a struct holding an array stands for the structs never empty        *)
FieldTypes ==
    {TInt, TSlice, TArray(1), InlineMap.Type, TPtr(TInt), TIface, TTime, TChan,
     TZeroer(TRUE), TZeroer(FALSE), StructA,
     TStruct("S", <<Field("F", TArray(1), "a", "a", TRUE)>>)}

FieldNames == <<"a", "b", "c", "d">>

(* structs of up to MaxEncFields fields named a, b, ...: each of a type of *)
(* FieldTypes or an inline map, the named ones all omitEmpty or none       *)
EncodeTypes ==
    {TStruct("S", [i \in 1..Len(fs) |->
                      IF fs[i] = InlineMap.Type THEN InlineMap
                      ELSE Field("F", fs[i], FieldNames[i], FieldNames[i], tagged)]) :
        fs \in UNION {[1..k -> FieldTypes] : k \in 1..MaxEncFields},
        tagged \in BOOLEAN}

WriterFaults ==
    {"none", "WriteDocument", "WriteDocumentElement", "WriteNull", "WriteDocumentEnd"}

InitEncode ==
    /\ codec \in {c \in Codecs : c = [newStructCodec EXCEPT
                     !.encodeOmitDefaultStruct = c.encodeOmitDefaultStruct]}
    /\ cache = <<>>
    /\ heap = <<>>
    /\ procs = InitProcs
    /\ nextAddr = 1

NextEncode ==
    \/ /\ procs[1].n = 0
       /\ \E t \in EncodeTypes, filled \in BOOLEAN, omitEmpty \in BOOLEAN,
             omitZeroStruct \in BOOLEAN, fail \in WriterFaults :
             CallEncode(1, t, IF filled THEN Filled(t) ELSE ZeroValue(t),
                        [EncodeContext EXCEPT !.omitEmpty = omitEmpty,
                                              !.omitZeroStruct = omitZeroStruct],
                        [fail |-> fail])
    \/ Load(1)
    \/ LoadOrStore(1)

SpecEncode == InitEncode /\ [][NextEncode]_vars

(* ------------------------------------------------- DecodeValue alone *)
(* struct { C k `bson:"c"` }, inside struct { B ... `bson:"b"` }, inside   *)
(* struct { A ... `bson:"a"` }                                             *)
Chain(k) ==
    LET c == TStruct("C", <<Field("C", k, "c", "c", FALSE)>>)
        b == TStruct("B", <<Field("B", c, "b", "b", FALSE)>>)
    IN  TStruct("A", <<Field("A", b, "a", "a", FALSE)>>)

Chains == {Chain(k) : k \in {TInt, TChan, TIface}}

(* struct { A k `bson:"a"`; M map[string]int `bson:",inline"` } *)
WithMap(k) == TStruct("M", <<Field("A", k, "a", "a", FALSE), InlineMap>>)

(* struct { *StructA `bson:",inline"`; B int `bson:"b"` } *)
WithPointer == TStruct("P", <<Inline(TPtr(StructA)), Field("B", TInt, "b", "b", FALSE)>>)

(* struct { *Q `bson:",inline"` } with Q struct { StructA `bson:",inline"` } *)
WithDeepPointer ==
    TStruct("D", <<Inline(TPtr(TStruct("Q", <<Inline(StructA)>>)))>>)

DecodeTypes ==
    Chains \cup {WithMap(TInt), WithMap(TIface), WithPointer, WithDeepPointer}

(* what an interface field of a destination holds: nothing, or a pointer   *)
(* to a struct, to an int, to a value whose type has no decoder, or a nil  *)
(* pointer                                                                 *)
InterfaceValues ==
    {<<>>,
     <<[t |-> TPtr(StructA), v |-> <<ZeroValue(StructA)>>]>>,
     <<[t |-> TPtr(TInt), v |-> <<0>>]>>,
     <<[t |-> TPtr(TChan), v |-> <<0>>]>>,
     <<[t |-> TPtr(StructA), v |-> <<>>]>>}

(* the destinations of type t: zero but for the interface fields *)
RECURSIVE Destinations(_)
Destinations(t) ==
    LET RECURSIVE From(_)
        From(i) == IF i > NumField(t) THEN {<<>>}
                   ELSE {<<x>> \o rest : x \in Destinations(t.fields[i].Type),
                                         rest \in From(i + 1)}
    IN  CASE t.kind = "iface" -> InterfaceValues
          [] t.kind = "struct" /\ ~IsTime(t) -> From(1)
          [] OTHER -> {ZeroValue(t)}

(* the elements a document decoded into t is made of: an int, a string or  *)
(* a document of at most one element for each field, and the int Z, which  *)
(* no field is named after                                                 *)
RECURSIVE Elements(_)
Elements(t) ==
    LET Of(sf) ==
            LET n == sf.bson.Name
                inner == CASE sf.Type.kind = "iface" -> StructA
                           [] sf.Type.kind = "ptr" -> Elem(sf.Type)
                           [] OTHER -> sf.Type
                nested == {<<>>} \cup {<<e>> : e \in Elements(inner)}
            IN  IF sf.bson.Inline
                THEN IF sf.Type.kind = "map" THEN {} ELSE Elements(inner)
                ELSE {Element(n, "int", 1, <<>>), Element(n, "string", 0, <<>>)}
                     \cup IF inner.kind = "struct" /\ ~IsTime(inner)
                          THEN {Element(n, "doc", 0, d) : d \in nested}
                          ELSE {}
    IN  {Element("Z", "int", 1, <<>>)}
        \cup UNION {Of(t.fields[i]) : i \in 1..NumField(t)}

Documents(t) == UNION {[1..k -> Elements(t)] : k \in 0..MaxDoc}

ReaderFaults == {"none", "ReadDocument", "ReadElement", "Skip"}

InitDecode ==
    /\ codec = newStructCodec
    /\ cache = <<>>
    /\ heap = <<>>
    /\ procs = InitProcs
    /\ nextAddr = 1

NextDecode ==
    \/ /\ procs[1].n = 0
       /\ \E t \in DecodeTypes, fail \in ReaderFaults :
             \E val \in Destinations(t), doc \in Documents(t) :
                CallDecode(1, t, val, DecodeContext,
                           [type |-> "doc", doc |-> doc, fail |-> fail])
    \/ /\ procs[1].n = 0
       /\ \E t \in DecodeTypes, fail \in {"none", "ReadNull"} :
             \E val \in Destinations(t) :
                CallDecode(1, t, val, DecodeContext,
                           [type |-> "null", doc |-> <<>>, fail |-> fail])
    \/ Load(1)
    \/ LoadOrStore(1)

SpecDecode == InitDecode /\ [][NextDecode]_vars

(* ------------------------------- DecodeValue with decodeDeepZeroInline *)
(* struct { P *StructA `bson:"p"` }'s field *)
Pointer == Field("P", TPtr(StructA), "p", "p", FALSE)

(* structs of plain fields, inline structs, inline struct pointers (one of *)
(* them to a struct that inlines a struct pointer itself), an inline map   *)
(* and a named struct pointer                                              *)
DeepZeroTypes ==
    StructsOf({Plain("a"), Plain("b"), Inline(StructA), Inline(TPtr(StructA)),
               Inline(TPtr(TStruct("Q", <<Inline(TPtr(StructA))>>))),
               InlineMap, Pointer}, MaxFields)

DeepZeroDocuments ==
    {<<>>, <<Element("a", "int", 1, <<>>)>>, <<Element("Z", "int", 1, <<>>)>>}

InitDeepZero ==
    /\ codec \in {c \in Codecs : c = [newStructCodec EXCEPT
                     !.decodeDeepZeroInline = TRUE,
                     !.decodeZeroStruct = c.decodeZeroStruct]}
    /\ cache = <<>>
    /\ heap = <<>>
    /\ procs = InitProcs
    /\ nextAddr = 1

NextDeepZero ==
    \/ /\ procs[1].n = 0
       /\ \E t \in DeepZeroTypes, filled \in BOOLEAN, doc \in DeepZeroDocuments :
             CallDecode(1, t, IF filled THEN Filled(t) ELSE ZeroValue(t),
                        DecodeContext, DocumentReader(doc))
    \/ Load(1)
    \/ LoadOrStore(1)

SpecDeepZero == InitDeepZero /\ [][NextDeepZero]_vars

(* ============================================================ properties *)
(* What the properties speak of, stated on the type alone: the fields that *)
(* resolve to a document name, each with its path of offsets.              *)
Visited(sf) == sf.Exported \/ (codec.allowUnexportedFields /\ sf.Anonymous)

TagOf(sf, json) == IF json THEN sf.json ELSE sf.bson

InlinedType(sf) == IF sf.Type.kind = "ptr" THEN Elem(sf.Type) ELSE sf.Type

InlinesStruct(sf, json) ==
    /\ Visited(sf) /\ ~TagOf(sf, json).Skip /\ TagOf(sf, json).Inline
    /\ sf.Type.kind \in {"struct", "ptr"}
    /\ InlinedType(sf).kind = "struct"

RECURSIVE Leaves(_, _)
Leaves(t, json) ==
    UNION {LET sf == t.fields[i]
           IN  IF ~Visited(sf) \/ TagOf(sf, json).Skip THEN {}
               ELSE IF InlinesStruct(sf, json)
               THEN {[name |-> l.name, path |-> <<i - 1>> \o l.path] :
                        l \in Leaves(InlinedType(sf), json)}
               ELSE IF TagOf(sf, json).Inline THEN {}
               ELSE {[name |-> TagOf(sf, json).Name, path |-> <<i - 1>>]}
           : i \in 1..NumField(t)}

RECURSIVE InlineTree(_, _)
InlineTree(t, json) ==
    {t} \cup UNION {IF InlinesStruct(t.fields[i], json)
                    THEN InlineTree(InlinedType(t.fields[i]), json) ELSE {}
                    : i \in 1..NumField(t)}

Named(t, json, n) == {l \in Leaves(t, json) : l.name = n}

SharedNames(t, json) ==
    {n \in {l.name : l \in Leaves(t, json)} : Cardinality(Named(t, json, n)) >= 2}

Shallowest(t, json, n) ==
    {l \in Named(t, json, n) :
        \A m \in Named(t, json, n) : Len(l.path) <= Len(m.path)}

Ambiguous(t, json) ==
    \E n \in SharedNames(t, json) : Cardinality(Shallowest(t, json, n)) >= 2

PathsInList(sd, n) == {FullPathOf(sd.fl[k]) : k \in {j \in 1..Len(sd.fl) : sd.fl[j].name = n}}

Done(p) == procs[p].call.op # "none" /\ procs[p].stack = <<>>

Result(p) == procs[p].ret

(* the description a finished call obtained *)
Description(p) == heap[procs[p].ret.sd]

StoredAs(sd, n, l) ==
    /\ n \in DOMAIN sd.fm
    /\ FullPathOf(sd.fm[n]) = l.path
    /\ PathsInList(sd, n) = {l.path}

(* C1, as stated: two fields of one document name at equal depth make the  *)
(* build fail with a duplicated-key error; at unequal depth the build       *)
(* succeeds and the shallower field alone is stored under the name.         *)
C1_AsStated ==
    (Done(1) /\ procs[1].call.op = "describe") =>
        \A l1, l2 \in Leaves(procs[1].call.t, FALSE) :
            (l1 # l2 /\ l1.name = l2.name /\ Len(l1.path) <= Len(l2.path)) =>
                IF Len(l1.path) = Len(l2.path)
                THEN Result(1).err.e = "DuplicatedKey"
                ELSE /\ Result(1).err.e = "nil"
                     /\ StoredAs(Description(1), l1.name, l1)

(* C1, amended: for a type in which a document name is shared, the build   *)
(* fails with a duplicated-key error when the strict policy is in force     *)
(* (overwriteDuplicatedInlinedFields off, or errorOnDuplicates) or when, in *)
(* the type or in a struct it inlines, the shallowest fields of a name are  *)
(* two or more at equal depth; otherwise it succeeds and, for each shared   *)
(* name, the single shallowest field is the one stored in the name map and  *)
(* in the field list, and no deeper field of that name is stored.           *)
C1_Dominance ==
    LET t == procs[1].call.t
        strictPolicy ==
            procs[1].call.strict \/ ~codec.overwriteDuplicatedInlinedFields
        mustFail == \/ \E u \in InlineTree(t, FALSE) : Ambiguous(u, FALSE)
                    \/ strictPolicy
    IN  (Done(1) /\ procs[1].call.op = "describe" /\ SharedNames(t, FALSE) # {}) =>
            IF mustFail
            THEN Result(1).err.e = "DuplicatedKey"
            ELSE /\ Result(1).err.e = "nil"
                 /\ \A n \in SharedNames(t, FALSE) :
                        \A l \in Shallowest(t, FALSE, n) :
                            StoredAs(Description(1), n, l)

(* C1's case: a build that succeeded on a type with a name shared by three *)
(* fields, two of them at equal depth below the third.                      *)
C1_Witness ==
    /\ Done(1) /\ procs[1].call.op = "describe"
    /\ Result(1).err.e = "nil"
    /\ \E n \in SharedNames(procs[1].call.t, FALSE) :
          /\ Cardinality(Named(procs[1].call.t, FALSE, n)) = 3
          /\ Cardinality({Len(l.path) : l \in Named(procs[1].call.t, FALSE, n)}) = 2
          /\ n \in DOMAIN Description(1).fm

(* ---------------------------------------------------------------- *)
(* the frames of goroutine p that hold a description *)
Holding(p) ==
    {i \in 1..Len(procs[p].stack) :
        procs[p].stack[i].k \in {"enc", "dec"} /\ procs[p].stack[i].sd # 0}

Called(p, op) == Done(p) /\ procs[p].call.op = op

(* C2: of the descriptions computed for a type exactly one is stored, and  *)
(* every describeStruct call made by EncodeValue or DecodeValue, racing or *)
(* later, returns the instance the cache holds for its type                *)
C2_OneInstance ==
    /\ \A t \in DOMAIN cache : cache[t] \in DOMAIN heap
    /\ Cardinality(DOMAIN heap) = Cardinality(DOMAIN cache)
    /\ \A p \in Procs :
          /\ \A i \in Holding(p) :
                LET f == procs[p].stack[i]
                IN  f.t \in DOMAIN cache /\ cache[f.t] = f.sd
          /\ (Done(p) /\ Result(p).sd # 0) =>
                /\ procs[p].call.t \in DOMAIN cache
                /\ cache[procs[p].call.t] = Result(p).sd

(* two goroutines raced on the same type: more descriptions were computed  *)
(* than are stored, and both calls returned the same instance              *)
C2_Witness ==
    /\ Done(1) /\ Done(2)
    /\ procs[1].n = 1 /\ procs[2].n = 1
    /\ procs[1].call.t = procs[2].call.t
    /\ Result(1).sd # 0 /\ Result(1).sd = Result(2).sd
    /\ nextAddr - 1 > Cardinality(DOMAIN cache)

(* C3: the description a call obtains for type T under tag convention c    *)
(* has the field names T's annotations give under c                        *)
C3_PerConvention ==
    \A p \in Procs :
        (Done(p) /\ Result(p).sd # 0) =>
            DOMAIN Description(p).fm =
                {l.name : l \in Leaves(procs[p].call.t, procs[p].call.json)}

(* C4: a description the cache holds is never changed *)
C4_Immutable ==
    [][\A a \in DOMAIN heap : a \in DOMAIN heap' /\ heap'[a] = heap[a]]_vars

(* EncodeValue, with omitEmpty forced by the context and an interface      *)
(* field holding an int, has run on a description that was cached before,  *)
(* whose fields are not omitEmpty and whose interface field has no encoder *)
C4_Witness ==
    \E p \in Procs :
        /\ Called(p, "encode") /\ procs[p].n = 2
        /\ Result(p).err.e = "nil"
        /\ procs[p].call.ctx.omitEmpty
        /\ \E k \in 1..Len(Description(p).fl) :
              /\ ~Description(p).fl[k].omitEmpty
              /\ Description(p).fl[k].encoder = "nil"
              /\ Description(p).fl[k].inline # <<>>

(* C10: EncodeValue under the strict duplicate policy, on a type in which  *)
(* two fields resolve to one name, fails with a duplicated-key error       *)
C10_StrictFails ==
    \A p \in Procs :
        (/\ Called(p, "encode")
         /\ procs[p].call.strict \/ ~codec.overwriteDuplicatedInlinedFields
         /\ SharedNames(procs[p].call.t, procs[p].call.json) # {}) =>
            Result(p).err.e = "DuplicatedKey"

(* a strict EncodeValue on such a type that met no cached description *)
C10_Witness ==
    \E p \in Procs :
        /\ Called(p, "encode") /\ procs[p].call.strict
        /\ SharedNames(procs[p].call.t, procs[p].call.json) # {}
        /\ Result(p).err.e = "DuplicatedKey"

(* ---------------------------------------------------------------- *)
(* C6 as stated: every EncodeValue call on a struct opens one document and *)
(* closes it once                                                          *)
C6_AsStated ==
    (Called(1, "encode") /\ procs[1].call.t.kind = "struct") =>
        Result(1).w.opened = 1 /\ Result(1).w.closed = 1

(* C6: an EncodeValue call that succeeds has opened one document and       *)
(* closed it once; one that fails has opened at most one and closed none   *)
C6_Scopes ==
    Called(1, "encode") =>
        IF Result(1).err.e = "nil"
        THEN Result(1).w.opened = 1 /\ Result(1).w.closed = 1
        ELSE Result(1).w.opened <= 1 /\ Result(1).w.closed = 0

(* a call that wrote elements, one of them a nested document, and succeeded *)
C6_Witness ==
    /\ Called(1, "encode")
    /\ Result(1).err.e = "nil"
    /\ Len(Result(1).w.elems) = 2
    /\ \E i \in 1..NumField(procs[1].call.t) :
          procs[1].call.t.fields[i].Type = StructA

(* every field of the struct encoded is tagged omitEmpty and is zero *)
AllOmitEmptyZero(p) ==
    /\ \A i \in 1..NumField(procs[p].call.t) :
          /\ ~procs[p].call.t.fields[i].bson.Inline
          /\ procs[p].call.t.fields[i].bson.OmitEmpty
    /\ procs[p].call.val = ZeroValue(procs[p].call.t)

(* C8 as stated: such a struct encodes to the empty document *)
C8_AsStated ==
    (Called(1, "encode") /\ AllOmitEmptyZero(1)) => Result(1).w.elems = <<>>

(* the zero value of t is empty: a Zeroer says so itself, an array is when *)
(* it has no element, a struct when structs are omitted as zero (by codec  *)
(* or context) and its exported fields are empty in turn                   *)
RECURSIVE EmptyAtZero(_, _)
EmptyAtZero(t, zeroStructs) ==
    CASE t.kind = "zeroer" -> t.n = 1
      [] IsTime(t) -> TRUE
      [] t.kind = "array" -> t.n = 0
      [] t.kind = "struct" /\ ~IsTime(t) ->
            /\ zeroStructs
            /\ \A i \in 1..NumField(t) :
                  (t.fields[i].Exported \/ t.fields[i].Anonymous) =>
                      EmptyAtZero(t.fields[i].Type, zeroStructs)
      [] OTHER -> TRUE

RECURSIVE KeptNames(_, _, _)
KeptNames(fields, i, zeroStructs) ==
    IF i > Len(fields) THEN <<>>
    ELSE IF LookupEncoder(fields[i].Type) = "nil" /\ fields[i].Type.kind # "iface"
    THEN <<>>
    ELSE (IF EmptyAtZero(fields[i].Type, zeroStructs) THEN <<>>
          ELSE <<fields[i].bson.Name>>)
         \o KeptNames(fields, i + 1, zeroStructs)

(* C8: when every field is tagged omitEmpty and is zero, and the writer    *)
(* fails nowhere, EncodeValue fails with no-encoder at the first field     *)
(* whose type has no encoder and succeeds if there is none; the elements   *)
(* written are the fields before it whose zero value is not empty          *)
C8_Empty ==
    (Called(1, "encode") /\ AllOmitEmptyZero(1) /\ procs[1].call.io.fail = "none") =>
        LET fields == procs[1].call.t.fields
            zeroStructs == codec.encodeOmitDefaultStruct
                           \/ procs[1].call.ctx.omitZeroStruct
        IN  /\ Result(1).w.elems = KeptNames(fields, 1, zeroStructs)
            /\ Result(1).err.e =
                  IF \E i \in 1..Len(fields) : fields[i].Type.kind = "chan"
                  THEN "NoEncoder" ELSE "nil"

(* two omitEmpty fields, a nil pointer and a zero struct, encoded with     *)
(* structs omitted as zero: the document is empty                          *)
C8_Witness ==
    /\ Called(1, "encode") /\ AllOmitEmptyZero(1)
    /\ procs[1].call.ctx.omitZeroStruct
    /\ NumField(procs[1].call.t) = 2
    /\ procs[1].call.t.fields[1].Type = TPtr(TInt)
    /\ procs[1].call.t.fields[2].Type = StructA
    /\ Result(1).err.e = "nil"
    /\ Result(1).w.elems = <<>>
    /\ Result(1).w.closed = 1

(* ---------------------------------------------------------------- *)
(* the document a DecodeValue call was given *)
Doc(p) == procs[p].call.io.doc

(* a DecodeValue call that opened its document has returned *)
Decoded(p) == Called(p, "decode") /\ Result(p).rd.opened

(* C5 as stated: when DecodeValue returns after opening the document,      *)
(* every element has been decoded or skipped                               *)
C5_AsStated == Decoded(1) => Result(1).rd.done = Len(Doc(1))

(* C5: a DecodeValue call that opened the document and succeeds has        *)
(* decoded or skipped every element and reached the end of the document;   *)
(* one that fails returned at the element it failed on, before the end     *)
C5_Consumed ==
    Decoded(1) =>
        IF Result(1).err.e = "nil"
        THEN /\ Result(1).rd.eod
             /\ Result(1).rd.read = Len(Doc(1))
             /\ Result(1).rd.done = Len(Doc(1))
        ELSE /\ ~Result(1).rd.eod
             /\ Result(1).rd.done <= Result(1).rd.read
             /\ Result(1).rd.read <= Result(1).rd.done + 1
             /\ Result(1).rd.read <= Len(Doc(1))

(* a successful call skipped an element no field is named after and        *)
(* decoded another                                                         *)
C5_Witness ==
    /\ Decoded(1) /\ Result(1).err.e = "nil"
    /\ procs[1].call.t \in Chains
    /\ Len(Doc(1)) = 2
    /\ Doc(1)[1].name = "Z" /\ Doc(1)[2].vt = "doc"
    /\ Result(1).rd.done = 2

(* the field of struct type t named n in documents *)
FieldNamed(t, n) == CHOOSE i \in 1..NumField(t) : t.fields[i].bson.Name = n

(* keys is a complete path: it names, level by level, elements of the      *)
(* document, and the element it ends at is not a document decoded by the   *)
(* struct codec into a struct, or into the struct an interface field       *)
(* points to                                                               *)
RECURSIVE Complete(_, _, _, _)
Complete(keys, doc, t, val) ==
    /\ keys # <<>>
    /\ \E i \in 1..NumField(t) : t.fields[i].bson.Name = keys[1]
    /\ LET i == FieldNamed(t, keys[1])
           ft == t.fields[i].Type
           inPlace == ft.kind = "iface" /\ val[i] # <<>> /\ val[i][1].v # <<>>
                      /\ Elem(val[i][1].t).kind = "struct"
           descends == ft.kind = "struct" \/ inPlace
       IN  \E k \in 1..Len(doc) :
              /\ ToLower(doc[k].name) = keys[1]
              /\ IF Len(keys) = 1 THEN ~(doc[k].vt = "doc" /\ descends)
                 ELSE /\ doc[k].vt = "doc" /\ descends
                      /\ Complete(Tail(keys), doc[k].sub,
                                  IF inPlace THEN Elem(val[i][1].t) ELSE ft,
                                  IF inPlace THEN val[i][1].v[1] ELSE val[i])

(* C7: a DecodeValue call, on nested structs without inline fields and     *)
(* with a reader that fails nowhere, that fails, returns a DecodeError     *)
(* whose Keys() is the complete path to the failing field and which wraps  *)
(* the innermost cause                                                     *)
C7_FullPath ==
    (/\ Called(1, "decode")
     /\ procs[1].call.t \in Chains
     /\ procs[1].call.io.fail = "none"
     /\ Result(1).err.e # "nil") =>
        /\ Result(1).err.e = "DecodeError"
        /\ Complete(Keys(Result(1).err), Doc(1), procs[1].call.t, procs[1].call.val)
        /\ Len(Result(1).err.wrapped) = 1
        /\ Result(1).err.wrapped[1].e # "DecodeError"

(* the same, for the destinations none of whose interface fields holds a   *)
(* pointer                                                                 *)
C7_NoPointer ==
    (Called(1, "decode") /\ procs[1].call.val = ZeroValue(procs[1].call.t)) =>
        C7_FullPath

(* decoding c inside b inside a failed for want of a decoder, and the      *)
(* error names a, b, c                                                     *)
C7_Witness ==
    /\ Called(1, "decode")
    /\ procs[1].call.t = Chain(TChan)
    /\ Result(1).err.e = "DecodeError"
    /\ Keys(Result(1).err) = <<"a", "b", "c">>
    /\ Result(1).err.wrapped[1].e = "NoDecoder"

(* the element el is named after a field of the struct decoded by call p *)
Matched(p, el) ==
    \E l \in Leaves(procs[p].call.t, FALSE) :
        l.name = el.name \/ l.name = ToLower(el.name)

(* the inline map of the struct type t, 0 if it has none *)
InlineMapOf(t) ==
    IF \E i \in 1..NumField(t) : t.fields[i].Type.kind = "map" /\ t.fields[i].bson.Inline
    THEN CHOOSE i \in 1..NumField(t) :
            t.fields[i].Type.kind = "map" /\ t.fields[i].bson.Inline
    ELSE 0

(* C9: with a reader that fails nowhere, DecodeValue does not fail on an   *)
(* element no field is named after; the elements of this kind it went over *)
(* are in the inline map under their own names, the map allocated, and     *)
(* without an inline map a document of such elements alone leaves the      *)
(* destination as it was                                                   *)
C9_Unmatched ==
    (Decoded(1) /\ procs[1].call.io.fail = "none") =>
        LET m == InlineMapOf(procs[1].call.t)
            rd == Result(1).rd
        IN  /\ (Result(1).err.e # "nil" /\ rd.read > rd.done) =>
                  Matched(1, Doc(1)[rd.read])
            /\ \A k \in 1..rd.done :
                  (~Matched(1, Doc(1)[k]) /\ m # 0) =>
                      /\ ~Result(1).val[m].isnil
                      /\ Doc(1)[k].name \in DOMAIN Result(1).val[m].kv
                      /\ Result(1).val[m].kv[Doc(1)[k].name] = Doc(1)[k].v
            /\ (m = 0 /\ \A k \in 1..Len(Doc(1)) : ~Matched(1, Doc(1)[k])) =>
                  Result(1).val = procs[1].call.val

(* the element Z went into the inline map, which was nil *)
C9_Witness ==
    /\ Decoded(1) /\ Result(1).err.e = "nil"
    /\ InlineMapOf(procs[1].call.t) # 0
    /\ procs[1].call.val[InlineMapOf(procs[1].call.t)].isnil
    /\ Len(Doc(1)) = 2 /\ Doc(1)[2].name = "Z"
    /\ "Z" \in DOMAIN Result(1).val[InlineMapOf(procs[1].call.t)].kv

(* ---------------------------------------------------------------- *)
(* the recursive zero of a type: scalars, containers and interfaces zero,  *)
(* a pointer to a struct pointing to the recursive zero of that struct     *)
RECURSIVE RecursiveZero(_)
RecursiveZero(t) ==
    CASE t.kind = "struct" /\ ~IsTime(t) ->
            [k \in 1..NumField(t) |-> RecursiveZero(t.fields[k].Type)]
      [] t.kind = "ptr" /\ Elem(t).kind = "struct" -> <<RecursiveZero(Elem(t))>>
      [] OTHER -> ZeroValue(t)

(* the description of t is built, and has inline fields *)
HasInline(t, json) ==
    \E i \in 1..NumField(t) :
        /\ Visited(t.fields[i])
        /\ ~TagOf(t.fields[i], json).Skip
        /\ TagOf(t.fields[i], json).Inline

DescriptorErrors ==
    {"DuplicatedKey", "MultipleInlineMaps", "InlineMapKeys", "InlineTarget"}

(* a DecodeValue call with decodeDeepZeroInline, on a type whose           *)
(* description was obtained and has inline fields, has returned            *)
DeepZeroed(p) ==
    /\ Called(p, "decode")
    /\ codec.decodeDeepZeroInline
    /\ HasInline(procs[p].call.t, procs[p].call.json)
    /\ Result(p).err.e \notin DescriptorErrors

(* C11: a DecodeValue call in deep-zero-inline mode on a type with inline  *)
(* fields does not fail in deepZero, and the destination it leaves after   *)
(* reading the empty document is the recursive zero of its type: scalars   *)
(* zero, every pointer to a struct non-nil and pointing to a struct built  *)
(* the same way                                                            *)
C11_DeepZero ==
    DeepZeroed(1) =>
        /\ Result(1).err.e # "panic"
        /\ Doc(1) = <<>> =>
              /\ Result(1).err.e = "nil"
              /\ Result(1).val = RecursiveZero(procs[1].call.t)

(* a destination whose inline struct pointer was set came back, from the   *)
(* empty document, with every field reset                                  *)
C11_Witness ==
    /\ DeepZeroed(1)
    /\ Doc(1) = <<>>
    /\ Result(1).err.e = "nil"
    /\ procs[1].call.val # ZeroValue(procs[1].call.t)
    /\ Result(1).val = ZeroValue(procs[1].call.t)
    /\ \E i \in 1..NumField(procs[1].call.t) :
          procs[1].call.t.fields[i] = Inline(TPtr(StructA))
====
